---- MODULE Spec2Model ----
(***************************************************************************)
(* Verification model of the swap server: the strategy router              *)
(* (getSwapStrategy), the request handler (handleSwapRequest), the         *)
(* transaction assembler (generateAndCompileTransaction) and the venue     *)
(* strategies' instruction generators.                                     *)
(*                                                                         *)
(* Spec       the request handler driving the router and a strategy        *)
(* SpecLive   Spec with weak fairness on the steps the server takes alone  *)
(* SpecBuild  instruction generation and assembly for one swap             *)
(* SpecNet    fetchWithRetry and the proxy manager                         *)
(* SpecRace   concurrent getSwapStrategy calls on one cache key            *)
(***************************************************************************)
EXTENDS Integers, Sequences, FiniteSets, TLC

VARIABLES
    \* ---- external world seen by the router
    eligible,       \* the strategies whose canHandle would answer true now
    moon,           \* what MoonshotSwapStrategy.canHandle meets: the mint's suffix, the
                    \* curve's migration and how the two classification APIs answer
    redisStore,     \* value stored under swap_strategy:<token>:<type>, or NoEntry
    NO_CACHE,       \* redisCache.ts: caching switched off by configuration
    \* ---- one getSwapStrategy call
    rpc,            \* position in getSwapStrategy
    checkResults,   \* outcome of each canHandle promise
    firstTrue,      \* the check that fulfilled with true first (0: none yet)
    selected,       \* strategy class the router returns
    routeError,     \* why getSwapStrategy rejected
    viaCache,       \* the returned strategy came from the cache entry
    redisTTL,       \* seconds the stored value was given to live (0: no entry)
    cacheWrites,    \* redis.set commands completed by this getSwapStrategy call
    \* ---- one handleSwapRequest call
    hpc,            \* position in handleSwapRequest
    reqShape,       \* shape of the request body
    selectedStrategy, \* the handler's selectedStrategy
    genOutcome,     \* what generateSwapInstructions produced
    response,       \* the HTTP response sent (NoResponse before)
    routeCalls,     \* getSwapStrategy invocations of this request
    generateCalls,  \* generateSwapInstructions invocations of this request
    stepsOk,        \* pipeline steps of this request that succeeded
    \* ---- one swap built by a strategy and the assembler
    bpc,            \* position in the build: "request", "generated", "assembled", "failed"
    swap,           \* the swap parameters and the chain state the strategy reads
    gen,            \* the SwapInstructionResult of generateSwapInstructions
    txs,            \* the transactions handed to the client, each a list of instructions
    \* ---- one fetchWithRetry call
    fpc,            \* position in fetchWithRetry: "idle", "loop", "fetch", "returned", "threw"
    retries,        \* the retries argument
    useProxy,       \* shouldUseProxy(url)
    attempt,        \* the loop variable
    attemptsMade,   \* fetch calls issued by this fetchWithRetry call
    elapsed,        \* time since the attempt's abort timer was armed
    currentProxy,   \* the proxy of the attempt (0: null)
    lastError,      \* the error caught last ("none": undefined)
    fetched,        \* status of the response returned (0: none)
    \* ---- the ProxyManager singleton
    currentIndex,   \* round-robin position, 0-based
    failedProxies,  \* the blacklist
    sinceCheck,     \* minutes since lastFailureCheck, counted up to one past the interval
    \* ---- concurrent getSwapStrategy calls for one cache key
    calls,          \* per call: position, selected class, whether it came from the cache
    lastWrite       \* the value of the latest redis.set on the key (NoEntry: none yet)

routerVars == << eligible, moon, redisStore, NO_CACHE, rpc, checkResults, firstTrue,
                 selected, routeError, viaCache, redisTTL, cacheWrites >>
handlerVars == << hpc, reqShape, selectedStrategy, genOutcome, response,
                  routeCalls, generateCalls, stepsOk >>
buildVars == << bpc, swap, gen, txs >>
fetchVars == << fpc, retries, useProxy, attempt, attemptsMade, elapsed, currentProxy,
               lastError, fetched >>
proxyVars == << currentIndex, failedProxies, sinceCheck >>
netVars == << fetchVars, proxyVars >>
raceVars == << calls, lastWrite >>

(***************************************************************************)
(* Router: src/unnamed/part_005                                            *)
(***************************************************************************)
strategyClasses ==
    << "MoonshotSwapStrategy", "PumpSwapStrategy", "RaydiumLaunchLabSwapStrategy",
       "PumpFunBondingCurveSwapStrategy", "RaydiumSwapStrategy" >>

StrategyIdx == 1..Len(strategyClasses)
StrategyNames == { strategyClasses[i] : i \in StrategyIdx }

NoEntry == "null"
NoStrategy == "none"

\* strategyClasses.find(cls => cls.name === cached.strategyName)
FindStrategyClass(name) ==
    IF \E i \in StrategyIdx : strategyClasses[i] = name
    THEN CHOOSE i \in StrategyIdx : strategyClasses[i] = name
    ELSE 0

\* a cache whose reads always miss
getCacheAlwaysMisses(store) == NoEntry

\* getCache: null when caching is off or the key is absent, else the entry
getCache(store) == IF NO_CACHE \/ store = NoEntry THEN NoEntry ELSE store

\* a redis SET NX: the first write stays
setCacheIfAbsent(store, name) ==
    IF NO_CACHE THEN store ELSE IF store = NoEntry THEN name ELSE store

\* setCache: no-op when caching is off, else overwrite the key
setCache(store, name) == IF NO_CACHE THEN store ELSE name

\* setCache: redis.set(key, value, 'EX', ttlSeconds) replaces the key's time to live
setCacheTTL(ttl, ttlSeconds) == IF NO_CACHE THEN ttl ELSE ttlSeconds

\* one time to live for every venue
getCacheTTLUniform(strategyName) == 120

\* getCacheTTL: seconds, by the lower-cased class name
getCacheTTL(strategyName) ==
    CASE strategyName \in { "PumpFunBondingCurveSwapStrategy",
                            "RaydiumLaunchLabSwapStrategy",
                            "MoonshotSwapStrategy" } -> 30
      [] strategyName \in { "RaydiumSwapStrategy", "PumpSwapStrategy" } -> 1800
      [] OTHER -> 120

AllPending == [i \in StrategyIdx |-> "pending"]

\* the moonshot API answers ok / answers with a non-OK status / the fetch throws;
\* dexConfirms: dexscreener answers ok and its first pair shows progress 100
MoonshotApiAnswers == { "ok", "notOk", "throws" }

\* a mint without the suffix, and the moon tokens with each way the APIs can answer:
\* dexscreener is asked only after a non-OK answer and can show progress 100 only
\* for a migrated curve
MoonStates ==
    { [isMoonToken |-> FALSE, isMigrated |-> FALSE, api |-> "ok", dexConfirms |-> FALSE] }
    \cup
    { m \in [isMoonToken : {TRUE}, isMigrated : BOOLEAN, api : MoonshotApiAnswers,
             dexConfirms : BOOLEAN] :
        m.dexConfirms => (m.api = "notOk" /\ m.isMigrated) }

\* MoonshotSwapStrategy.canHandle
MoonshotCanHandle(m) ==
    IF ~m.isMoonToken THEN FALSE
    ELSE IF m.api = "throws" THEN TRUE
    ELSE IF m.api = "ok" THEN ~m.isMigrated
    ELSE IF m.dexConfirms THEN FALSE
    ELSE TRUE

\* the venue states: Moonshot's answer is the one its canHandle computes
VenueStates ==
    { v \in [eligible : SUBSET StrategyIdx, moon : MoonStates] :
        (1 \in v.eligible) <=> MoonshotCanHandle(v.moon) }

\* the eligible set once Moonshot's check meets m
WithMoonshotAnswer(e, m) ==
    (e \ {1}) \cup (IF MoonshotCanHandle(m) THEN {1} ELSE { })

\* a canHandle promise: fulfils with the venue's answer, or rejects; Moonshot's
\* canHandle catches every error of its own
CanHandleOutcomes(i) ==
    IF strategyClasses[i] = "MoonshotSwapStrategy"
    THEN { IF MoonshotCanHandle(moon) THEN "true" ELSE "false" }
    ELSE { IF i \in eligible THEN "true" ELSE "false", "error" }

\* await Promise.all(checkPromises): the results in the order of strategyClasses
PromiseAllResults(results) == [i \in StrategyIdx |-> results[i]]

\* for (const result of results) if ('canHandle' in result && result.canHandle === true)
RECURSIVE FirstCanHandle(_, _)
FirstCanHandle(results, i) ==
    IF i > Len(strategyClasses) THEN 0
    ELSE IF results[i] = "true" THEN i
    ELSE FirstCanHandle(results, i + 1)

\* fastest-responder selection: the check that fulfilled with true first
SelectFirstToComplete(results) == firstTrue

\* a Promise.all without the per-promise catch: one rejection sinks the routing
SelectNoneWhenAnyRejects(results) ==
    IF \E i \in StrategyIdx : results[i] = "error" THEN 0
    ELSE FirstCanHandle(results, 1)

\* a router that falls back to the last strategy of the list when no check is true
SelectWithDefaultVenue(results) ==
    IF FirstCanHandle(results, 1) = 0 THEN Len(strategyClasses)
    ELSE FirstCanHandle(results, 1)

\* step 3 of getSwapStrategy: index of the selected class, 0 when none
SelectStrategy(results) == FirstCanHandle(PromiseAllResults(results), 1)

ResetCall ==
    /\ checkResults' = AllPending
    /\ firstTrue' = 0

\* the venue state moves between requests (a curve migrates, a pool appears), one
\* venue at a time: what Moonshot's check meets, or the answer of one other venue
VenueStateChange ==
    /\ rpc = "idle"
    /\ \/ \E m \in MoonStates :
            /\ m # moon
            /\ moon' = m
            /\ eligible' = WithMoonshotAnswer(eligible, m)
       \/ \E i \in StrategyIdx \ {1} :
            /\ eligible' = (IF i \in eligible THEN eligible \ {i} ELSE eligible \cup {i})
            /\ moon' = moon
    /\ UNCHANGED << redisStore, NO_CACHE, rpc, checkResults, firstTrue, selected,
                    routeError, viaCache,
                    redisTTL, cacheWrites >>
    /\ UNCHANGED << handlerVars, buildVars, netVars, raceVars >>

\* the key's TTL runs out (redis.set(..., 'EX', ttlSeconds))
CacheExpire ==
    /\ redisStore # NoEntry
    /\ redisStore' = NoEntry
    /\ redisTTL' = 0
    /\ UNCHANGED << eligible, moon, NO_CACHE, rpc, checkResults, firstTrue, selected,
                    routeError, viaCache, cacheWrites >>
    /\ UNCHANGED << handlerVars, buildVars, netVars, raceVars >>

\* const cached = await getCache(cacheKey); the cache-hit short circuit
GetCacheReturns ==
    /\ rpc = "getCache"
    /\ LET cached == getCache(redisStore) IN
       IF cached # NoEntry /\ FindStrategyClass(cached) # 0
       THEN /\ rpc' = "returned"
            /\ selected' = strategyClasses[FindStrategyClass(cached)]
            /\ viaCache' = TRUE
       ELSE /\ rpc' = "checks"
            /\ UNCHANGED << selected, viaCache >>
    /\ UNCHANGED << eligible, moon, redisStore, NO_CACHE, checkResults, firstTrue, routeError,
                    redisTTL, cacheWrites >>
    /\ UNCHANGED << handlerVars, buildVars, netVars, raceVars >>

\* redis.get rejects: the await in getSwapStrategy is not guarded
GetCacheThrows ==
    /\ rpc = "getCache"
    /\ ~NO_CACHE
    /\ rpc' = "threw"
    /\ routeError' = "cache"
    /\ UNCHANGED << eligible, moon, redisStore, NO_CACHE, checkResults, firstTrue, selected,
                    viaCache,
                    redisTTL, cacheWrites >>
    /\ UNCHANGED << handlerVars, buildVars, netVars, raceVars >>

\* one canHandle promise settles; the others stay in flight
CanHandleSettles ==
    /\ rpc = "checks"
    /\ \E i \in StrategyIdx :
         /\ checkResults[i] = "pending"
         /\ \E r \in CanHandleOutcomes(i) :
              /\ checkResults' = [checkResults EXCEPT ![i] = r]
              /\ firstTrue' = IF firstTrue = 0 /\ r = "true" THEN i ELSE firstTrue
    /\ UNCHANGED << eligible, moon, redisStore, NO_CACHE, rpc, selected, routeError, viaCache,
                    redisTTL, cacheWrites >>
    /\ UNCHANGED << handlerVars, buildVars, netVars, raceVars >>

\* Promise.all resolved: walk the results in priority order
SelectAfterAllSettled ==
    /\ rpc = "checks"
    /\ \A i \in StrategyIdx : checkResults[i] # "pending"
    /\ LET k == SelectStrategy(checkResults) IN
       IF k # 0
       THEN /\ rpc' = "setCache"
            /\ selected' = strategyClasses[k]
            /\ UNCHANGED routeError
       ELSE /\ rpc' = "threw"
            /\ routeError' = "unsupported"
            /\ UNCHANGED selected
    /\ UNCHANGED << eligible, moon, redisStore, NO_CACHE, checkResults, firstTrue, viaCache,
                    redisTTL, cacheWrites >>
    /\ UNCHANGED << handlerVars, buildVars, netVars, raceVars >>

\* await setCache(cacheKey, { strategyName }, ttl); return new SelectedStrategyClass
SetCacheReturns ==
    /\ rpc = "setCache"
    /\ redisStore' = setCache(redisStore, selected)
    /\ redisTTL' = setCacheTTL(redisTTL, getCacheTTL(selected))
    /\ cacheWrites' = IF NO_CACHE THEN cacheWrites ELSE cacheWrites + 1
    /\ rpc' = "returned"
    /\ UNCHANGED << eligible, moon, NO_CACHE, checkResults, firstTrue, selected, routeError,
                    viaCache >>
    /\ UNCHANGED << handlerVars, buildVars, netVars, raceVars >>

\* redis.set rejects: the await in the selection loop is not guarded
SetCacheThrows ==
    /\ rpc = "setCache"
    /\ ~NO_CACHE
    /\ rpc' = "threw"
    /\ routeError' = "cache"
    /\ selected' = NoStrategy
    /\ UNCHANGED << eligible, moon, redisStore, NO_CACHE, checkResults, firstTrue, viaCache,
                    redisTTL, cacheWrites >>
    /\ UNCHANGED << handlerVars, buildVars, netVars, raceVars >>

(***************************************************************************)
(* Request handler: src/unnamed/part_009                                   *)
(***************************************************************************)
NoResponse == [status |-> 0, success |-> FALSE, error |-> "", transactions |-> << >>]

\* "zeroAmount": amount is a string that is not a number above zero;
\* "slippageOutOfRange": slippageBps is a number outside 0..10000
RequestShapes ==
    { "valid", "noWallet", "badMint", "badAmount", "badSlippage", "badType",
      "walletNotAKey", "zeroAmount", "slippageOutOfRange" }

\* the field checks at the top of handleSwapRequest, in order; "" when all pass
ValidationError(shape) ==
    CASE shape = "noWallet" -> "Invalid request: userWalletAddress missing or invalid."
      [] shape = "badMint" -> "Invalid request: inputMint or outputMint missing or invalid."
      [] shape = "badAmount" -> "Invalid request: amount missing or not a string."
      [] shape = "badSlippage" -> "Invalid request: slippageBps missing or not a number."
      [] shape = "badType" -> "Invalid request: type missing or invalid."
      [] OTHER -> ""

\* res.status(code).json({ success: false, error })
ErrorResponse(code, msg) ==
    [status |-> code, success |-> FALSE, error |-> msg, transactions |-> << >>]

\* a failure response that leaks the transactions built so far
ErrorResponseWithPartial(code, msg) ==
    [status |-> code, success |-> FALSE, error |-> msg, transactions |-> << "tx" >>]

\* the response of the catch blocks and failure branches after strategy selection
FailureResponse(code, msg) == ErrorResponse(code, msg)

\* res.status(200).json({ success: true, transactions })
SuccessResponse(transactions) ==
    [status |-> 200, success |-> TRUE, error |-> "", transactions |-> transactions]

\* what generateSwapInstructions of each strategy class can hand back
GenerateOutcomes(name) ==
    CASE name = "MoonshotSwapStrategy" -> { "instructions", "throws" }
      [] name = "PumpSwapStrategy" -> { "instructions", "throws" }
      [] name = "RaydiumLaunchLabSwapStrategy" -> { "instructions", "empty", "failure" }
      [] name = "PumpFunBondingCurveSwapStrategy" -> { "instructions", "failure", "throws" }
      [] name = "RaydiumSwapStrategy" -> { "versionedTransaction", "failure" }
      [] OTHER -> { }

\* a handler that goes back to the router for the next venue
RetryNextVenue == "route"

\* where the handler goes when the selected strategy failed to generate
AfterGenerateFailure == "responded"

HandlerReceives ==
    /\ hpc \in {"idle", "responded", "crashed"}
    /\ rpc = "idle"
    /\ \E s \in RequestShapes : reqShape' = s
    /\ hpc' = "validate"
    /\ response' = NoResponse
    /\ selectedStrategy' = NoStrategy
    /\ genOutcome' = "none"
    /\ routeCalls' = 0
    /\ generateCalls' = 0
    /\ stepsOk' = { }
    /\ UNCHANGED << routerVars, buildVars, netVars, raceVars >>

\* lines 36-63: reject a malformed body before anything else runs
HandlerValidates ==
    /\ hpc = "validate"
    /\ IF ValidationError(reqShape) # ""
       THEN /\ response' = ErrorResponse(400, ValidationError(reqShape))
            /\ hpc' = "responded"
            /\ UNCHANGED stepsOk
       ELSE IF reqShape = "walletNotAKey"
       THEN \* new PublicKey(userWalletAddress) throws outside any try block
            /\ hpc' = "crashed"
            /\ UNCHANGED << response, stepsOk >>
       ELSE /\ hpc' = "route"
            /\ stepsOk' = stepsOk \cup {"validated"}
            /\ UNCHANGED response
    /\ UNCHANGED << reqShape, selectedStrategy, genOutcome, routeCalls, generateCalls >>
    /\ UNCHANGED << routerVars, buildVars, netVars, raceVars >>

\* selectedStrategy = await getSwapStrategy(...): the call is issued
HandlerCallsRouter ==
    /\ hpc = "route"
    /\ rpc = "idle"
    /\ hpc' = "routing"
    /\ routeCalls' = routeCalls + 1
    /\ rpc' = "getCache"
    /\ selected' = NoStrategy
    /\ routeError' = "none"
    /\ viaCache' = FALSE
    /\ cacheWrites' = 0
    /\ ResetCall
    /\ UNCHANGED << eligible, moon, redisStore, NO_CACHE, redisTTL >>
    /\ UNCHANGED << reqShape, selectedStrategy, genOutcome, response, generateCalls,
                    stepsOk >>
    /\ UNCHANGED << buildVars, netVars, raceVars >>

\* getSwapStrategy resolved
HandlerRouted ==
    /\ hpc = "routing"
    /\ rpc = "returned"
    /\ selectedStrategy' = selected
    /\ stepsOk' = stepsOk \cup {"routed"}
    /\ hpc' = "blockhash"
    /\ rpc' = "idle"
    /\ ResetCall
    /\ UNCHANGED << eligible, moon, redisStore, NO_CACHE, selected, routeError, viaCache,
                    redisTTL, cacheWrites >>
    /\ UNCHANGED << reqShape, genOutcome, response, routeCalls, generateCalls >>
    /\ UNCHANGED << buildVars, netVars, raceVars >>

\* getSwapStrategy rejected: catch (err) -> 400
HandlerRouteFailed ==
    /\ hpc = "routing"
    /\ rpc = "threw"
    /\ response' = ErrorResponse(400, "No suitable swap strategy found.")
    /\ hpc' = "responded"
    /\ rpc' = "idle"
    /\ ResetCall
    /\ UNCHANGED << eligible, moon, redisStore, NO_CACHE, selected, routeError, viaCache,
                    redisTTL, cacheWrites >>
    /\ UNCHANGED << reqShape, selectedStrategy, genOutcome, routeCalls, generateCalls,
                    stepsOk >>
    /\ UNCHANGED << buildVars, netVars, raceVars >>

\* connection.getLatestBlockhash()
HandlerBlockhash ==
    /\ hpc = "blockhash"
    /\ \/ /\ hpc' = "generate"
          /\ stepsOk' = stepsOk \cup {"blockhash"}
          /\ UNCHANGED response
       \/ /\ hpc' = "responded"
          /\ response' = FailureResponse(500, "Failed to process swap")
          /\ UNCHANGED stepsOk
    /\ UNCHANGED << reqShape, selectedStrategy, genOutcome, routeCalls, generateCalls >>
    /\ UNCHANGED << routerVars, buildVars, netVars, raceVars >>

\* await selectedStrategy.generateSwapInstructions(...) and the branches on its result
HandlerGenerates ==
    /\ hpc = "generate"
    /\ generateCalls' = generateCalls + 1
    /\ \E o \in GenerateOutcomes(selectedStrategy) :
         /\ genOutcome' = o
         /\ CASE o = "throws" ->
                   /\ hpc' = AfterGenerateFailure
                   /\ response' = FailureResponse(500, "Failed to process swap")
                   /\ UNCHANGED stepsOk
              [] o = "failure" ->
                   /\ hpc' = AfterGenerateFailure
                   /\ response' = FailureResponse(400, "Strategy failed to generate instructions")
                   /\ UNCHANGED stepsOk
              [] o = "versionedTransaction" ->
                   /\ hpc' = "serialize"
                   /\ stepsOk' = stepsOk \cup {"generated"}
                   /\ UNCHANGED response
              [] o = "empty" ->
                   /\ hpc' = "responded"
                   /\ response' = FailureResponse(500, "Invalid strategy result (no instructions).")
                   /\ UNCHANGED stepsOk
              [] o = "instructions" ->
                   /\ hpc' = "compile"
                   /\ stepsOk' = stepsOk \cup {"generated"}
                   /\ UNCHANGED response
    /\ UNCHANGED << reqShape, selectedStrategy, routeCalls >>
    /\ UNCHANGED << routerVars, buildVars, netVars, raceVars >>

\* versionedTx.serialize() and the 200 response of the pre-built path
HandlerSerializes ==
    /\ hpc = "serialize"
    /\ \/ /\ response' = SuccessResponse(<< "tx" >>)
          /\ stepsOk' = stepsOk \cup {"compiled"}
       \/ /\ response' = FailureResponse(500, "Failed to process swap")
          /\ UNCHANGED stepsOk
    /\ hpc' = "responded"
    /\ UNCHANGED << reqShape, selectedStrategy, genOutcome, routeCalls, generateCalls >>
    /\ UNCHANGED << routerVars, buildVars, netVars, raceVars >>

\* generateAndCompileTransaction and the response built from its result
HandlerCompiles ==
    /\ hpc = "compile"
    /\ \/ /\ response' = SuccessResponse(<< "tx" >>)
          /\ stepsOk' = stepsOk \cup {"compiled"}
       \/ /\ response' = FailureResponse(500, "Transaction compilation error")
          /\ UNCHANGED stepsOk
    /\ hpc' = "responded"
    /\ UNCHANGED << reqShape, selectedStrategy, genOutcome, routeCalls, generateCalls >>
    /\ UNCHANGED << routerVars, buildVars, netVars, raceVars >>

(***************************************************************************)
(* Instructions, fee and token-account helpers:                            *)
(* src/src/utils/feeUtils.ts, src/src/utils/tokenAccounts.ts               *)
(***************************************************************************)
MaxAmount == 1000        \* largest request amount, in raw units
MaxReserve == 20000      \* largest pool reserve, in raw units
RentExempt == 2          \* getMinimumBalanceForRentExemption(165), scaled down
WsolFunded == 5          \* balance of a WSOL account that holds wrapped SOL

BPS_DENOMINATOR == 10000
SENDY_FEE_ACCOUNT == "SENDY_FEE_ACCOUNT"
WSOL == "WSOL"           \* NATIVE_MINT and its associated token account
TOKEN == "TOKEN"         \* the traded mint and its associated token account

Ix(kind, to, lamports) == [kind |-> kind, to |-> to, lamports |-> lamports]

\* the factor 1_000_000 of the conversions to micro-lamports
MICRO_PER_UNIT == 1000000

\* the compute-unit price the trade API is asked for when its fee endpoint fails
RaydiumDefaultComputeUnitPrice == 1000

\* ComputeBudgetProgram.setComputeUnitPrice({ microLamports })
ComputeUnitPriceIx(microLamports) == Ix("setComputeUnitPrice", "", microLamports)
\* createAssociatedTokenAccountIdempotentInstruction
CreateAtaIdempotentIx(mint) == Ix("createAtaIdempotent", mint, 0)
\* createAssociatedTokenAccountInstruction
CreateAtaIx(mint) == Ix("createAta", mint, 0)
\* SystemProgram.transfer({ fromPubkey: user, toPubkey, lamports })
TransferIx(to, lamports) == Ix("transfer", to, lamports)
\* createSyncNativeInstruction(wsolAta)
SyncNativeIx == Ix("syncNative", WSOL, 0)
\* createCloseAccountInstruction(ata, user, user)
CloseAccountIx(mint) == Ix("closeAccount", mint, 0)
\* the venue program's buy or sell instruction
SwapIx(venue) == Ix("swap", venue, 0)

\* feeUtils.ts calculateSendyFee: 1% of the amount, BigInt division
calculateSendyFee(solAmount) == solAmount \div 100

\* feeUtils.ts makeSendyFeeInstruction wrapped by the strategies' "if (fee > 0n) push"
makeSendyFeeInstruction(lamports) ==
    IF lamports > 0 THEN << TransferIx(SENDY_FEE_ACCOUNT, lamports) >> ELSE << >>

\* getAccountInfo(ata) !== null; tokenAta is the token balance, -1 without an account
AtaExists(s, mint) == IF mint = WSOL THEN s.wsolAta # "missing" ELSE s.tokenAta >= 0

\* lamports held by the user's WSOL account: rent plus the wrapped balance
WsolLamports(s) == RentExempt + (IF s.wsolAta = "funded" THEN WsolFunded ELSE 0)

\* getTokenAccountBalance(wsolAta).catch(() => undefined): -1 when the lookup fails
WsolBalance(s) ==
    CASE s.wsolAta = "missing" -> -1
      [] s.wsolAta = "funded" -> WsolFunded
      [] OTHER -> 0

\* prepareTokenAccounts, the loop over mints: create each missing ATA idempotently
RECURSIVE EnsureAtas(_, _)
EnsureAtas(s, mints) ==
    IF mints = << >> THEN << >>
    ELSE (IF AtaExists(s, Head(mints)) THEN << >> ELSE << CreateAtaIdempotentIx(Head(mints)) >>)
         \o EnsureAtas(s, Tail(mints))

\* prepareTokenAccounts, wsolHandling.wrap: fund the WSOL account and sync it
WrapSol(s, amount) ==
    LET requiredTotal == amount + RentExempt
        required == IF ~AtaExists(s, WSOL) THEN requiredTotal
                    ELSE IF WsolLamports(s) < requiredTotal
                         THEN requiredTotal - WsolLamports(s) ELSE 0
    IN  (IF AtaExists(s, WSOL) THEN << >> ELSE << CreateAtaIdempotentIx(WSOL) >>)
        \o (IF required > 0 THEN << TransferIx(WSOL, required) >> ELSE << >>)
        \o << SyncNativeIx >>

\* prepareTokenAccounts({ mints, wsolHandling: { wrap, unwrap, amount } }): the unwrap
\* option pushes a close of the WSOL account onto the same list, unconditionally;
\* no strategy sets it
prepareTokenAccounts(s, mints, wrap, unwrap, amount) ==
    EnsureAtas(s, mints)
    \o (IF wrap THEN WrapSol(s, amount) ELSE << >>)
    \o (IF unwrap THEN << CloseAccountIx(WSOL) >> ELSE << >>)

\* an unwrap helper that skips the balance lookup
addWsolUnwrapWithoutBalanceCheck(s) ==
    IF s.type = "sell" THEN << CloseAccountIx(WSOL) >> ELSE << >>

\* addWsolUnwrapInstructionIfNeeded: close the WSOL account when SOL is the output
\* and the account holds a positive balance
addWsolUnwrapInstructionIfNeeded(s) ==
    IF s.type = "sell" /\ WsolBalance(s) > 0 THEN << CloseAccountIx(WSOL) >> ELSE << >>

\* a sell-all test without the tolerance band
isSellAllExact(s) ==
    /\ s.tokenAta >= 0
    /\ s.amountRaw >= s.tokenAta

\* addCloseTokenAccountInstructionIfSellAll: amountRaw >= balanceRaw - balanceRaw * 0.001
\* (the balance lookup throws without an account and the helper swallows it)
isSellAll(s) ==
    /\ s.tokenAta >= 0
    /\ s.amountRaw * 1000 >= s.tokenAta * 999

addCloseTokenAccountInstructionIfSellAll(s) ==
    IF s.type = "sell" /\ isSellAll(s) THEN << CloseAccountIx(TOKEN) >> ELSE << >>

(***************************************************************************)
(* Strategy results                                                        *)
(***************************************************************************)
NoResult ==
    [success |-> FALSE, threw |-> FALSE, error |-> "", instructions |-> << >>,
     versionedTransaction |-> << >>, sendyFeeLamports |-> 0,
     amountOut |-> 0, solAmount |-> 0, tokenAmount |-> 0]

\* throw new Error(msg): the handler's catch answers 500
Threw(msg) == [NoResult EXCEPT !.threw = TRUE, !.error = msg]

\* return { success: false, error: msg }
Failed(msg) == [NoResult EXCEPT !.error = msg]

\* return { success: true, instructions, sendyFeeLamports, ... }
Generated(ixs, fee, amountOut, sol, token) ==
    [NoResult EXCEPT !.success = TRUE, !.instructions = ixs, !.sendyFeeLamports = fee,
                     !.amountOut = amountOut, !.solAmount = sol, !.tokenAmount = token]

(***************************************************************************)
(* PumpSwap: src/src/swap/swaps/pumpswap/PumpSwapStrategy.ts               *)
(***************************************************************************)
\* the integers b in 0..600 for which the double (b / 100) * 100 is below b
FloatDriftBps ==
    { 29, 57, 58, 113, 114, 115, 116, 201, 203, 205, 207, 226, 228, 230, 232, 251,
      253, 255, 402, 406, 410, 414, 427, 431, 435, 439, 452, 456, 460, 464, 477,
      481, 485, 489, 502, 506, 510 }

\* Math.floor((Number(slippageBps) / 100) * 100) in IEEE-754 doubles
\* (exact for 5000 and 10000, tabulated below 600)
SlippageTimes100(slippageBps) ==
    IF slippageBps \in FloatDriftBps THEN slippageBps - 1 ELSE slippageBps

\* k = Rin * Rout; newRin = Rin + amountIn; newRout = k / newRin; out = Rout - newRout
ConstantProductOut(reserveIn, reserveOut, amountIn) ==
    reserveOut - ((reserveIn * reserveOut) \div (reserveIn + amountIn))

\* minOut = out - (out * BigInt(Math.floor(slippagePercentage * 100))) / 10000n
ApplySlippage(amountOut, slippageBps) ==
    amountOut - ((amountOut * SlippageTimes100(slippageBps)) \div BPS_DENOMINATOR)

\* mintsToEnsure [base, quote, NATIVE] deduplicated, then the WSOL steps of each side
PumpSwapPreparatoryInstructions(s) ==
    IF s.type = "buy"
    THEN prepareTokenAccounts(s, << TOKEN, WSOL >>, TRUE, FALSE, s.amountRaw)
    ELSE prepareTokenAccounts(s, << TOKEN, WSOL >>, FALSE, FALSE, 0)
         \o (IF AtaExists(s, WSOL)
             THEN << SyncNativeIx >>
             ELSE << CreateAtaIx(WSOL), TransferIx(WSOL, RentExempt), SyncNativeIx >>)

\* [...preparatoryInstructions, feeIx?, swapInstruction, unwrap?, closeIfSellAll?]
PumpSwapAllInstructions(s, fee) ==
    PumpSwapPreparatoryInstructions(s)
    \o makeSendyFeeInstruction(fee)
    \o << SwapIx("PumpSwap") >>
    \o addWsolUnwrapInstructionIfNeeded(s)
    \o addCloseTokenAccountInstructionIfSellAll(s)

\* a PumpSwap generator that prices against whatever reserves it reads
PumpSwapGenerateUnchecked(s) ==
    IF ~s.venueOk THEN Threw("Could not fetch pool data")
    ELSE IF s.type = "buy"
    THEN LET baseAmountOut == ConstantProductOut(s.solReserves, s.tokenReserves, s.amountRaw)
             fee == s.amountRaw \div 100
         IN  Generated(PumpSwapAllInstructions(s, fee), fee, baseAmountOut,
                       s.amountRaw, ApplySlippage(baseAmountOut, s.slippageBps))
    ELSE LET quoteAmountOut == ConstantProductOut(s.tokenReserves, s.solReserves, s.amountRaw)
             minQuoteAmountOut == ApplySlippage(quoteAmountOut, s.slippageBps)
         IN  Generated(PumpSwapAllInstructions(s, minQuoteAmountOut \div 100),
                       minQuoteAmountOut \div 100, quoteAmountOut,
                       minQuoteAmountOut, s.amountRaw)

\* PumpSwapStrategy.generateSwapInstructions
PumpSwapGenerate(s) ==
    IF ~s.venueOk THEN Threw("Could not fetch pool data")
    ELSE IF s.solReserves = 0 \/ s.tokenReserves = 0 THEN Threw("Pool has zero reserves")
    ELSE IF s.type = "buy"
    THEN LET solAmountIn == s.amountRaw
             baseAmountOut == ConstantProductOut(s.solReserves, s.tokenReserves, solAmountIn)
             minBaseAmountOut == ApplySlippage(baseAmountOut, s.slippageBps)
             fee == solAmountIn \div 100
         IN  Generated(PumpSwapAllInstructions(s, fee), fee, baseAmountOut,
                       solAmountIn, minBaseAmountOut)
    ELSE LET baseAmountIn == s.amountRaw
             quoteAmountOut == ConstantProductOut(s.tokenReserves, s.solReserves, baseAmountIn)
             minQuoteAmountOut == ApplySlippage(quoteAmountOut, s.slippageBps)
             fee == minQuoteAmountOut \div 100
         IN  Generated(PumpSwapAllInstructions(s, fee), fee, quoteAmountOut,
                       minQuoteAmountOut, baseAmountIn)

(***************************************************************************)
(* Pump.fun bonding curve: src/unnamed/part_006                            *)
(***************************************************************************)
\* mintsToEnsure: [inputMint, NATIVE_MINT, pump token] deduplicated
PumpFunMintsToEnsure(s) == IF s.type = "buy" THEN << WSOL, TOKEN >> ELSE << TOKEN, WSOL >>

\* baseSolInput + (baseSolInput * BigInt(slippageBps)) / 10000n
PumpFunMaxSolIn(baseSolInput, slippageBps) ==
    baseSolInput + ((baseSolInput * slippageBps) \div BPS_DENOMINATOR)

\* the token reserve left after the buy, in place of the tokens bought
PumpFunTokenReserveAfter(vSol, vToken, baseSolInput) ==
    (vToken * vSol) \div (vSol + baseSolInput)

\* (virtualTokenReserves * baseSolInput) / (virtualSolReserves + baseSolInput)
PumpFunTokenOut(vSol, vToken, baseSolInput) == (vToken * baseSolInput) \div (vSol + baseSolInput)

\* (virtualSolReserves * tokenAmountRaw) / (virtualTokenReserves + tokenAmountRaw)
PumpFunExpectedSolOutput(vSol, vToken, tokenAmountRaw) ==
    (vSol * tokenAmountRaw) \div (vToken + tokenAmountRaw)

\* expectedSolOutput - (expectedSolOutput * BigInt(slippageBps)) / 10000n
PumpFunMinSolOut(expectedSolOutput, slippageBps) ==
    expectedSolOutput - ((expectedSolOutput * slippageBps) \div BPS_DENOMINATOR)

\* PumpFunBondingCurveSwapStrategy.generateSwapInstructions
PumpFunGenerate(s) ==
    IF ~s.venueOk THEN Failed("Could not fetch data for pump.fun token")
    ELSE IF s.type = "buy"
    THEN IF s.solReserves = 0 THEN Threw("Pump virtual SOL reserves are zero.")
         ELSE LET solAmountLamports == PumpFunMaxSolIn(s.amountRaw, s.slippageBps)
                  tokenAmountRaw == PumpFunTokenOut(s.solReserves, s.tokenReserves, s.amountRaw)
                  fee == solAmountLamports \div 100
              IN  Generated(prepareTokenAccounts(s, PumpFunMintsToEnsure(s), FALSE, FALSE, 0)
                               \o makeSendyFeeInstruction(fee)
                               \o << SwapIx("PumpFun") >>,
                            fee, tokenAmountRaw, solAmountLamports, tokenAmountRaw)
    ELSE \* the sell reaches addWsolUnwrapInstructionIfNeeded, which is called without a
         \* connection and dereferences it because outputMint is the native mint
         Threw("Cannot read properties of undefined (reading 'getTokenAccountBalance')")

(***************************************************************************)
(* Moonshot: src/src/swap/swaps/moonshot/MoonshotSwapStrategy.ts           *)
(***************************************************************************)
\* MoonshotSwapStrategy.generateSwapInstructions
MoonshotGenerate(s) ==
    IF ~s.venueOk THEN Threw("Moonshot SDK call failed")
    ELSE LET collateralAmount == IF s.type = "buy" THEN s.amountRaw ELSE s.vendorQuote
             tokenAmount == IF s.type = "buy" THEN s.vendorQuote ELSE s.amountRaw
             fee == calculateSendyFee(collateralAmount)
         IN  Generated(makeSendyFeeInstruction(fee)
                          \o << SwapIx("Moonshot") >>
                          \o addWsolUnwrapInstructionIfNeeded(s)
                          \o addCloseTokenAccountInstructionIfSellAll(s),
                       fee, s.vendorQuote, collateralAmount, tokenAmount)

(***************************************************************************)
(* Raydium LaunchLab:                                                      *)
(* src/src/swap/swaps/raydiumlaunchlab/RaydiumLaunchLabSwapStrategy.ts     *)
(***************************************************************************)
\* new Decimal(amountB).mul((10000 - slippageBps) / 10000).toFixed(0): round half up
LaunchLabMinOut(amountB, slippageBps) ==
    (2 * amountB * (BPS_DENOMINATOR - slippageBps) + BPS_DENOMINATOR)
        \div (2 * BPS_DENOMINATOR)

\* RaydiumLaunchLabSwapStrategy.generateSwapInstructions: the result carries only the
\* instructions extracted from the SDK transaction, and the fee as a number
LaunchLabGenerate(s) ==
    IF ~s.venueOk THEN Failed("Failed to generate Launchpad swap instructions")
    ELSE IF s.type = "buy"
    THEN Generated(<< SwapIx("RaydiumLaunchLab") >>, s.amountRaw \div 100,
                   s.vendorQuote, s.amountRaw, s.vendorQuote)
    ELSE LET minOutAmountLamports == LaunchLabMinOut(s.vendorQuote, s.slippageBps) IN
         IF minOutAmountLamports <= 0
         THEN Failed("Failed to generate Launchpad swap instructions")
         ELSE Generated(<< SwapIx("RaydiumLaunchLab") >>, minOutAmountLamports \div 100,
                        s.vendorQuote, minOutAmountLamports, s.amountRaw)

(***************************************************************************)
(* Raydium trade API: src/src/swap/swap.ts                                 *)
(***************************************************************************)
\* the transaction the trade API builds for { computeUnitPriceMicroLamports, wrapSol,
\* unwrapSol }: compute budget, account setup, swap, unwrap
RaydiumApiTransaction(s) ==
    << ComputeUnitPriceIx(RaydiumDefaultComputeUnitPrice) >>
    \o (IF s.type = "buy"
        THEN << CreateAtaIdempotentIx(WSOL), TransferIx(WSOL, s.amountRaw), SyncNativeIx >>
        ELSE << CreateAtaIdempotentIx(WSOL) >>)
    \o << SwapIx("Raydium"), CloseAccountIx(WSOL) >>

\* Math.floor(Number(amount) * 0.01), equal to amount \div 100 on the amounts modelled
RaydiumFee(amount) == amount \div 100

\* RaydiumSwapStrategy.generateSwapInstructions
RaydiumGenerate(s) ==
    IF s.slippageBps = 0 THEN Failed("Missing required swap parameters.")
    ELSE IF ~s.venueOk THEN Failed("Failed to get quote from Raydium API.")
    ELSE LET feeLamports == RaydiumFee(IF s.type = "buy" THEN s.amountRaw ELSE s.vendorQuote)
             rebuilt == makeSendyFeeInstruction(feeLamports)
                        \o RaydiumApiTransaction(s)
                        \o addCloseTokenAccountInstructionIfSellAll(s)
             versionedTransaction ==
                 IF feeLamports > 0 \/ s.type = "sell" THEN rebuilt ELSE RaydiumApiTransaction(s)
         IN  [NoResult EXCEPT !.success = TRUE, !.versionedTransaction = versionedTransaction,
                              !.sendyFeeLamports = feeLamports, !.amountOut = s.vendorQuote]

(***************************************************************************)
(* Assembly: src/unnamed/part_003 and the result branches of part_009      *)
(***************************************************************************)
\* transactionDetails.params.priorityFee ? priorityFee * 1_000_000 : 0 in the handler.
\* The request's priorityFee is counted in millionths here: p stands for the number
\* p / 1000000, and its product with 1_000_000 is p
priorityFeeMicroLamports(p) ==
    IF p # 0 THEN (p * MICRO_PER_UNIT) \div MICRO_PER_UNIT ELSE 0

\* generateAndCompileTransaction: Math.ceil(priorityFee * 1_000_000) as the
\* compute-unit price when priorityFee > 0, then the strategy's instructions as
\* given; feeLamports is not used
generateAndCompileTransaction(swapInstructions, priorityFee, feeLamports) ==
    (IF priorityFee > 0 /\ priorityFee * MICRO_PER_UNIT > 0
     THEN << ComputeUnitPriceIx(priorityFee * MICRO_PER_UNIT) >>
     ELSE << >>)
    \o swapInstructions

Types == { "buy", "sell" }
AmountValues == { 1, 150, MaxAmount }
SlippageValues == { 0, 29, 500, 5000, BPS_DENOMINATOR }
ReserveValues == { 0, 1, 1000, MaxReserve }
VendorQuotes == { 0, 99, 5000 }
TokenBalances == { -1, 0, 150, MaxAmount + 1 }
WsolStates == { "missing", "zero", "funded" }
CurveVenues == { "PumpSwapStrategy", "PumpFunBondingCurveSwapStrategy" }

\* amounts and the balance of the sell-all cases: sold against a balance of 1000000
SellAllAmounts == { 900000, 999500 }
SellAllBalances == { 1000000 }

\* the sell-all amounts are sold only against the sell-all balance
SellAllCase(s) ==
    /\ (s.amountRaw \in SellAllAmounts) => (s.type = "sell" /\ s.tokenAta \in SellAllBalances)
    /\ (s.tokenAta \in SellAllBalances) => (s.amountRaw \in SellAllAmounts)

\* the swaps a build is given: reserves for the venues priced here, a vendor quote
\* for the venues priced by an SDK or API
SwapInputs ==
    { s \in
        [venue : CurveVenues, type : Types, amountRaw : AmountValues \cup SellAllAmounts,
         slippageBps : SlippageValues, priorityFee : {0, 1},
         solReserves : ReserveValues, tokenReserves : ReserveValues, vendorQuote : {0},
         venueOk : BOOLEAN, tokenAta : TokenBalances \cup SellAllBalances,
         wsolAta : WsolStates]
        \cup
        [venue : StrategyNames \ CurveVenues, type : Types,
         amountRaw : AmountValues \cup SellAllAmounts,
         slippageBps : SlippageValues, priorityFee : {0, 1},
         solReserves : {0}, tokenReserves : {0}, vendorQuote : VendorQuotes,
         venueOk : BOOLEAN, tokenAta : TokenBalances \cup SellAllBalances,
         wsolAta : WsolStates] :
      SellAllCase(s) }

NoSwap ==
    [venue |-> NoStrategy, type |-> "buy", amountRaw |-> 0, slippageBps |-> 0,
     priorityFee |-> 0, solReserves |-> 0, tokenReserves |-> 0, vendorQuote |-> 0,
     venueOk |-> FALSE, tokenAta |-> -1, wsolAta |-> "missing"]

StrategyGenerates(name, result) ==
    /\ bpc = "request"
    /\ swap.venue = name
    /\ gen' = result
    /\ bpc' = "generated"
    /\ UNCHANGED << swap, txs >>
    /\ UNCHANGED << routerVars, handlerVars, netVars, raceVars >>

MoonshotGenerates == StrategyGenerates("MoonshotSwapStrategy", MoonshotGenerate(swap))
PumpSwapGenerates == StrategyGenerates("PumpSwapStrategy", PumpSwapGenerate(swap))
LaunchLabGenerates ==
    StrategyGenerates("RaydiumLaunchLabSwapStrategy", LaunchLabGenerate(swap))
PumpFunGenerates ==
    StrategyGenerates("PumpFunBondingCurveSwapStrategy", PumpFunGenerate(swap))
RaydiumGenerates == StrategyGenerates("RaydiumSwapStrategy", RaydiumGenerate(swap))

\* the strategy threw, returned success: false, or returned no instructions
BuildRejects ==
    /\ bpc = "generated"
    /\ \/ gen.threw
       \/ ~gen.success
       \/ (gen.versionedTransaction = << >> /\ gen.instructions = << >>)
    /\ bpc' = "failed"
    /\ txs' = << >>
    /\ UNCHANGED << swap, gen >>
    /\ UNCHANGED << routerVars, handlerVars, netVars, raceVars >>

\* 'versionedTransaction' in instructionResult: the strategy's transaction is returned
BuildPrebuilt ==
    /\ bpc = "generated"
    /\ gen.success
    /\ gen.versionedTransaction # << >>
    /\ bpc' = "assembled"
    /\ txs' = << gen.versionedTransaction >>
    /\ UNCHANGED << swap, gen >>
    /\ UNCHANGED << routerVars, handlerVars, netVars, raceVars >>

\* generateAndCompileTransaction(...) succeeds with one transaction or fails to compile
BuildCompiles ==
    /\ bpc = "generated"
    /\ gen.success
    /\ gen.versionedTransaction = << >>
    /\ gen.instructions # << >>
    /\ \/ /\ bpc' = "assembled"
          /\ txs' = << generateAndCompileTransaction(
                        gen.instructions, priorityFeeMicroLamports(swap.priorityFee),
                        gen.sendyFeeLamports) >>
       \/ /\ bpc' = "failed"
          /\ txs' = << >>
    /\ UNCHANGED << swap, gen >>
    /\ UNCHANGED << routerVars, handlerVars, netVars, raceVars >>

(***************************************************************************)
(* Proxy manager: src/src/utils/proxyManager.ts                            *)
(***************************************************************************)
NumProxies == 3          \* PROXIES.length, scaled down
MaxRetries == 2          \* largest retries argument modelled
TimeoutTicks == 2        \* timeoutMs, in ticks of the attempt timer

\* 5 * 60 * 1000 ms, in minutes
FAILURE_RESET_INTERVAL == 5

PROXIES == 1..NumProxies
NoProxy == 0

\* resetFailedProxies: clear the blacklist once the interval has passed since the
\* last check; the record is the manager's state afterwards
resetFailedProxies(failed, since) ==
    IF since > FAILURE_RESET_INTERVAL
    THEN [failedProxies |-> { }, sinceCheck |-> 0]
    ELSE [failedProxies |-> failed, sinceCheck |-> since]

\* the while loop of getNextProxy: the first proxy at or after index idx, cyclically,
\* that is not blacklisted (0-based index; NumProxies when there is none)
RECURSIVE ScanFrom(_, _, _)
ScanFrom(failed, idx, attempts) ==
    IF attempts >= NumProxies THEN NumProxies
    ELSE IF (idx + 1) \notin failed THEN idx
    ELSE ScanFrom(failed, (idx + 1) % NumProxies, attempts + 1)

\* getNextProxy: timed reset, reset when every proxy is blacklisted, then round robin
getNextProxy(failed, since, idx) ==
    LET r == resetFailedProxies(failed, since)
        usable == IF PROXIES \ r.failedProxies = { } THEN { } ELSE r.failedProxies
        found == ScanFrom(usable, idx, 0)
    IN  [proxy |-> found + 1, currentIndex |-> (found + 1) % NumProxies,
         failedProxies |-> usable, sinceCheck |-> r.sinceCheck]

\* markProxyAsFailed
markProxyAsFailed(failed, proxy) == failed \cup {proxy}

(***************************************************************************)
(* fetchWithRetry: src/src/swap/utils/fetchWithRetry.ts                    *)
(***************************************************************************)
\* what rejects a fetch: the abort of the attempt's timer ("The user aborted a
\* request."), a system error named by its code, or anything else
FetchErrors == { "abort", "ECONNREFUSED", "ENOTFOUND", "ECONNRESET", "ETIMEDOUT", "other" }

\* the statuses a response can carry
Statuses == { 200, 404, 499, 500, 503 }

\* errorMessage.includes('timeout') || includes('ECONNREFUSED') || includes('ENOTFOUND')
\* || includes('ECONNRESET'): neither the abort message nor the upper-case ETIMEDOUT
\* holds the word 'timeout'
MarksProxy(err) == err \in { "ECONNREFUSED", "ENOTFOUND", "ECONNRESET" }

\* a catch block that repeats the iteration instead of moving to the next
AttemptCaughtAndRepeated(err) ==
    /\ lastError' = err
    /\ failedProxies' = failedProxies
    /\ attempt' = attempt
    /\ fpc' = "loop"
    /\ UNCHANGED << retries, useProxy, attemptsMade, elapsed, currentProxy, fetched,
                    currentIndex, sinceCheck >>

\* the catch block: remember the error, blacklist the proxy on a marked error, go on
\* with the next iteration
AttemptCaught(err) ==
    /\ lastError' = err
    /\ failedProxies' = IF useProxy /\ currentProxy # NoProxy /\ MarksProxy(err)
                        THEN markProxyAsFailed(failedProxies, currentProxy)
                        ELSE failedProxies
    /\ attempt' = attempt + 1
    /\ fpc' = "loop"
    /\ UNCHANGED << retries, useProxy, attemptsMade, elapsed, currentProxy, fetched,
                    currentIndex, sinceCheck >>

\* fetchWithRetry(url, options, retries, timeoutMs) is called
FetchCalled ==
    /\ fpc \in { "idle", "returned", "threw" }
    /\ \E r \in 0..MaxRetries : retries' = r
    /\ \E p \in BOOLEAN : useProxy' = p
    /\ fpc' = "loop"
    /\ attempt' = 0
    /\ attemptsMade' = 0
    /\ elapsed' = 0
    /\ currentProxy' = NoProxy
    /\ lastError' = "none"
    /\ fetched' = 0
    /\ UNCHANGED proxyVars
    /\ UNCHANGED << routerVars, handlerVars, buildVars, raceVars >>

\* one iteration begins: arm the timer, take a proxy when the URL needs one, fetch
AttemptStarts ==
    /\ fpc = "loop"
    /\ attempt <= retries
    /\ fpc' = "fetch"
    /\ elapsed' = 0
    /\ attemptsMade' = attemptsMade + 1
    /\ IF useProxy
       THEN LET n == getNextProxy(failedProxies, sinceCheck, currentIndex) IN
            /\ currentProxy' = n.proxy
            /\ currentIndex' = n.currentIndex
            /\ failedProxies' = n.failedProxies
            /\ sinceCheck' = n.sinceCheck
       ELSE UNCHANGED << currentProxy, currentIndex, failedProxies, sinceCheck >>
    /\ UNCHANGED << retries, useProxy, attempt, lastError, fetched >>
    /\ UNCHANGED << routerVars, handlerVars, buildVars, raceVars >>

\* the attempt's timer runs while the fetch is in flight
TimerTicks ==
    /\ fpc = "fetch"
    /\ elapsed < TimeoutTicks
    /\ elapsed' = elapsed + 1
    /\ UNCHANGED << fpc, retries, useProxy, attempt, attemptsMade, currentProxy,
                    lastError, fetched >>
    /\ UNCHANGED proxyVars
    /\ UNCHANGED << routerVars, handlerVars, buildVars, raceVars >>

\* a response arrives before the timer fires: returned below 500, thrown otherwise
AttemptResponds ==
    /\ fpc = "fetch"
    /\ elapsed < TimeoutTicks
    /\ \E status \in Statuses :
         IF status < 500
         THEN /\ fpc' = "returned"
              /\ fetched' = status
              /\ UNCHANGED << retries, useProxy, attempt, attemptsMade, elapsed,
                              currentProxy, lastError >>
              /\ UNCHANGED proxyVars
         ELSE AttemptCaught("HTTP 5xx")
    /\ UNCHANGED << routerVars, handlerVars, buildVars, raceVars >>

\* the fetch rejects with a network error before the timer fires
AttemptFails ==
    /\ fpc = "fetch"
    /\ elapsed < TimeoutTicks
    /\ \E err \in FetchErrors \ { "abort" } : AttemptCaught(err)
    /\ UNCHANGED << routerVars, handlerVars, buildVars, raceVars >>

\* setTimeout(() => controller.abort(), timeoutMs) fires
AttemptAborts ==
    /\ fpc = "fetch"
    /\ elapsed = TimeoutTicks
    /\ AttemptCaught("abort")
    /\ UNCHANGED << routerVars, handlerVars, buildVars, raceVars >>

\* the loop is over: throw lastError
FetchThrows ==
    /\ fpc = "loop"
    /\ attempt > retries
    /\ fpc' = "threw"
    /\ UNCHANGED << retries, useProxy, attempt, attemptsMade, elapsed, currentProxy,
                    lastError, fetched >>
    /\ UNCHANGED proxyVars
    /\ UNCHANGED << routerVars, handlerVars, buildVars, raceVars >>

\* a minute passes on the wall clock
MinutePasses ==
    /\ sinceCheck <= FAILURE_RESET_INTERVAL
    /\ sinceCheck' = sinceCheck + 1
    /\ UNCHANGED << currentIndex, failedProxies >>
    /\ UNCHANGED fetchVars
    /\ UNCHANGED << routerVars, handlerVars, buildVars, raceVars >>

NetIdle ==
    /\ fpc = "idle"
    /\ retries = 0
    /\ useProxy = FALSE
    /\ attempt = 0
    /\ attemptsMade = 0
    /\ elapsed = 0
    /\ currentProxy = NoProxy
    /\ lastError = "none"
    /\ fetched = 0
    /\ currentIndex = 0
    /\ failedProxies = { }
    /\ sinceCheck = FAILURE_RESET_INTERVAL + 1

(***************************************************************************)
(* Concurrent getSwapStrategy calls on one cache key: src/unnamed/part_005 *)
(***************************************************************************)
NumCallers == 2          \* calls in flight at once
Callers == 1..NumCallers

IdleCall == [pc |-> "idle", selected |-> NoStrategy, viaCache |-> FALSE]

\* what the calls leave alone in the router's own state
raceRest == << eligible, moon, NO_CACHE, rpc, checkResults, firstTrue, selected,
               routeError, viaCache, cacheWrites >>

\* a request reaches getSwapStrategy
RaceCallStarts(c) ==
    /\ calls[c].pc \in { "idle", "returned", "threw" }
    /\ calls' = [calls EXCEPT ![c] = [IdleCall EXCEPT !.pc = "getCache"]]
    /\ UNCHANGED << redisStore, redisTTL, lastWrite, raceRest >>
    /\ UNCHANGED << handlerVars, buildVars, netVars >>

\* const cached = await getCache(cacheKey), and the cache-hit return
RaceGetCache(c) ==
    /\ calls[c].pc = "getCache"
    /\ LET cached == getCache(redisStore) IN
       IF cached # NoEntry /\ FindStrategyClass(cached) # 0
       THEN calls' = [calls EXCEPT ![c] =
                         [pc |-> "returned", selected |-> cached, viaCache |-> TRUE]]
       ELSE calls' = [calls EXCEPT ![c].pc = "checks"]
    /\ UNCHANGED << redisStore, redisTTL, lastWrite, raceRest >>
    /\ UNCHANGED << handlerVars, buildVars, netVars >>

\* await Promise.all(checkPromises) and the selection loop up to the cache write
RaceEvaluates(c) ==
    /\ calls[c].pc = "checks"
    /\ \E results \in [StrategyIdx -> { "true", "false", "error" }] :
         /\ \A i \in StrategyIdx : results[i] \in CanHandleOutcomes(i)
         /\ LET k == SelectStrategy(results) IN
            IF k # 0
            THEN calls' = [calls EXCEPT ![c].pc = "setCache",
                                        ![c].selected = strategyClasses[k]]
            ELSE calls' = [calls EXCEPT ![c].pc = "threw"]
    /\ UNCHANGED << redisStore, redisTTL, lastWrite, raceRest >>
    /\ UNCHANGED << handlerVars, buildVars, netVars >>

\* await setCache(cacheKey, { strategyName }, ttl): one redis SET, then the return
RaceSetCache(c) ==
    /\ calls[c].pc = "setCache"
    /\ redisStore' = setCache(redisStore, calls[c].selected)
    /\ redisTTL' = setCacheTTL(redisTTL, getCacheTTL(calls[c].selected))
    /\ lastWrite' = IF NO_CACHE THEN lastWrite ELSE calls[c].selected
    /\ calls' = [calls EXCEPT ![c].pc = "returned"]
    /\ UNCHANGED raceRest
    /\ UNCHANGED << handlerVars, buildVars, netVars >>

\* redis.get or redis.set rejects and the call rejects with it
RaceCacheThrows(c) ==
    /\ calls[c].pc \in { "getCache", "setCache" }
    /\ ~NO_CACHE
    /\ calls' = [calls EXCEPT ![c].pc = "threw", ![c].selected = NoStrategy]
    /\ UNCHANGED << redisStore, redisTTL, lastWrite, raceRest >>
    /\ UNCHANGED << handlerVars, buildVars, netVars >>

RaceIdle ==
    /\ calls = [c \in Callers |-> IdleCall]
    /\ lastWrite = NoEntry

BuildIdle ==
    /\ bpc = "idle"
    /\ swap = NoSwap
    /\ gen = NoResult
    /\ txs = << >>

RouterIdle ==
    /\ eligible = { }
    /\ moon = [isMoonToken |-> FALSE, isMigrated |-> FALSE, api |-> "ok",
               dexConfirms |-> FALSE]
    /\ redisStore = NoEntry
    /\ NO_CACHE = TRUE
    /\ rpc = "idle"
    /\ checkResults = AllPending
    /\ firstTrue = 0
    /\ selected = NoStrategy
    /\ routeError = "none"
    /\ viaCache = FALSE
    /\ redisTTL = 0
    /\ cacheWrites = 0

HandlerIdle ==
    /\ hpc = "idle"
    /\ reqShape = "valid"
    /\ selectedStrategy = NoStrategy
    /\ genOutcome = "none"
    /\ response = NoResponse
    /\ routeCalls = 0
    /\ generateCalls = 0
    /\ stepsOk = { }

Init ==
    /\ \E v \in VenueStates : eligible = v.eligible /\ moon = v.moon
    /\ redisStore = NoEntry
    /\ NO_CACHE \in BOOLEAN
    /\ rpc = "idle"
    /\ checkResults = AllPending
    /\ firstTrue = 0
    /\ selected = NoStrategy
    /\ routeError = "none"
    /\ viaCache = FALSE
    /\ redisTTL = 0
    /\ cacheWrites = 0
    /\ HandlerIdle
    /\ BuildIdle
    /\ NetIdle
    /\ RaceIdle

Next ==
    \/ VenueStateChange
    \/ CacheExpire
    \/ GetCacheReturns
    \/ GetCacheThrows
    \/ CanHandleSettles
    \/ SelectAfterAllSettled
    \/ SetCacheReturns
    \/ SetCacheThrows
    \/ HandlerReceives
    \/ HandlerValidates
    \/ HandlerCallsRouter
    \/ HandlerRouted
    \/ HandlerRouteFailed
    \/ HandlerBlockhash
    \/ HandlerGenerates
    \/ HandlerSerializes
    \/ HandlerCompiles

vars == << routerVars, handlerVars, buildVars, netVars, raceVars >>

Spec == Init /\ [][Next]_vars

\* the steps the server takes by itself: each is taken once it can be. The canHandle
\* checks wait on a remote API through a fetch without a timeout, and a request
\* arrives when a client sends one, so neither is bound to happen
ServerSteps ==
    \/ GetCacheReturns \/ GetCacheThrows
    \/ SelectAfterAllSettled
    \/ SetCacheReturns \/ SetCacheThrows
    \/ HandlerValidates
    \/ HandlerCallsRouter
    \/ HandlerRouted
    \/ HandlerRouteFailed
    \/ HandlerBlockhash
    \/ HandlerGenerates
    \/ HandlerSerializes
    \/ HandlerCompiles

SpecLive == Init /\ [][Next]_vars /\ WF_vars(ServerSteps)

InitBuild ==
    /\ RouterIdle
    /\ HandlerIdle
    /\ bpc = "request"
    /\ swap \in SwapInputs
    /\ gen = NoResult
    /\ txs = << >>
    /\ NetIdle
    /\ RaceIdle

NextBuild ==
    \/ MoonshotGenerates
    \/ PumpSwapGenerates
    \/ LaunchLabGenerates
    \/ PumpFunGenerates
    \/ RaydiumGenerates
    \/ BuildRejects
    \/ BuildPrebuilt
    \/ BuildCompiles

SpecBuild == InitBuild /\ [][NextBuild]_vars

InitNet ==
    /\ RouterIdle
    /\ HandlerIdle
    /\ BuildIdle
    /\ NetIdle
    /\ RaceIdle

NextNet ==
    \/ FetchCalled
    \/ AttemptStarts
    \/ TimerTicks
    \/ AttemptResponds
    \/ AttemptFails
    \/ AttemptAborts
    \/ FetchThrows
    \/ MinutePasses

SpecNet == InitNet /\ [][NextNet]_vars

\* caching switched on, any venue state, no call in flight
InitRace ==
    /\ \E v \in VenueStates : eligible = v.eligible /\ moon = v.moon
    /\ redisStore = NoEntry
    /\ NO_CACHE = FALSE
    /\ rpc = "idle"
    /\ checkResults = AllPending
    /\ firstTrue = 0
    /\ selected = NoStrategy
    /\ routeError = "none"
    /\ viaCache = FALSE
    /\ redisTTL = 0
    /\ cacheWrites = 0
    /\ HandlerIdle
    /\ BuildIdle
    /\ NetIdle
    /\ RaceIdle

NextRace ==
    \/ VenueStateChange
    \/ CacheExpire
    \/ \E c \in Callers :
          \/ RaceCallStarts(c)
          \/ RaceGetCache(c)
          \/ RaceEvaluates(c)
          \/ RaceSetCache(c)
          \/ RaceCacheThrows(c)

SpecRace == InitRace /\ [][NextRace]_vars

(***************************************************************************)
(* Claims checked under Spec                                               *)
(***************************************************************************)
EligibleAnswers == { i \in StrategyIdx : checkResults[i] = "true" }

\* what an evaluation of every predicate against the current venue state selects
FullEvaluationNow ==
    IF eligible = { } THEN 0 ELSE CHOOSE i \in eligible : \A j \in eligible : i <= j

\* C1: a full evaluation returns the eligible strategy that comes first in the
\* priority list, whatever order the checks completed in, and nothing is chosen
\* while a check is still pending
C1_PriorityOrderSelection ==
    /\ (rpc \in {"setCache", "returned"} /\ ~viaCache) =>
          /\ \A i \in StrategyIdx : checkResults[i] # "pending"
          /\ EligibleAnswers # { }
          /\ \A j \in EligibleAnswers : FindStrategyClass(selected) <= j
          /\ FindStrategyClass(selected) \in EligibleAnswers
    /\ (rpc = "checks") => selected = NoStrategy

\* a completed full evaluation whose winner was not the first check to answer true
C1_Witness ==
    /\ rpc = "returned"
    /\ ~viaCache
    /\ firstTrue # 0
    /\ firstTrue # FindStrategyClass(selected)

\* C4 (as claimed): a strategy served from the cache entry is the strategy a full
\* evaluation of the predicates would select at that moment
C4_CacheHitEqualsFullEvaluation ==
    (rpc = "returned" /\ viaCache) =>
        /\ FullEvaluationNow # 0
        /\ selected = strategyClasses[FullEvaluationNow]

\* C5 (as claimed): a failing cache get or set never makes routing fail
C5_CacheFailureNeverFailsRouting ==
    ~(rpc = "threw" /\ routeError = "cache")

PipelineSteps == { "validated", "routed", "blockhash", "generated", "compiled" }

\* C9: an error response carries no transaction, and a response carries
\* transactions only when every step of the pipeline succeeded
C9_NoPartialSuccess ==
    (hpc = "responded") =>
        /\ (~response.success => response.transactions = << >>)
        /\ (response.transactions # << >> =>
               response.success /\ PipelineSteps \subseteq stepsOk)
        /\ (response.success => response.transactions # << >>)

\* an error response sent after instruction generation had already succeeded
C9_Witness ==
    /\ hpc = "responded"
    /\ "generated" \in stepsOk
    /\ ~response.success
    /\ response.status = 500

\* C10: within one request the router and the instruction generator are each invoked
\* at most once, and a failed generation ends the request with an error response
C10_EligibilityDecidedOnce ==
    /\ routeCalls <= 1
    /\ generateCalls <= 1
    /\ (genOutcome \in {"failure", "throws"}) =>
          /\ hpc = "responded"
          /\ ~response.success
          /\ response.transactions = << >>

\* the selected venue failed while another venue was eligible too
C10_Witness ==
    /\ hpc = "responded"
    /\ genOutcome \in {"failure", "throws"}
    /\ routeCalls = 1
    /\ generateCalls = 1
    /\ Cardinality(eligible) >= 2

\* the results with every rejected check read as an answer of false
RejectionsAsFalse ==
    [i \in StrategyIdx |-> IF checkResults[i] = "error" THEN "false" ELSE checkResults[i]]

\* C11: a canHandle that throws or rejects counts as false: the router returns what
\* the same answers with false in place of the rejection select, and it fails as
\* unsupported only when no check answered true
C11_ThrowingPredicateIsFalse ==
    /\ (rpc \in {"setCache", "returned"} /\ ~viaCache) =>
          /\ FirstCanHandle(RejectionsAsFalse, 1) # 0
          /\ selected = strategyClasses[FirstCanHandle(RejectionsAsFalse, 1)]
    /\ (rpc = "threw" /\ routeError = "unsupported") =>
          /\ FirstCanHandle(RejectionsAsFalse, 1) = 0
          /\ selected = NoStrategy

\* a higher-priority check rejected and the router returned a later strategy
C11_Witness ==
    /\ rpc = "returned"
    /\ ~viaCache
    /\ \E i \in StrategyIdx :
          /\ checkResults[i] = "error"
          /\ i < FindStrategyClass(selected)
          /\ i \in eligible

\* C12: when no check answers true the routing call throws: a strategy is returned
\* from a full evaluation only if some check answered true, and a request whose
\* routing failed this way has no strategy, left the cache key unwritten, never
\* called generateSwapInstructions, and is answered with the routing error
C12_UnsupportedVenue ==
    /\ (rpc \in {"setCache", "returned"} /\ ~viaCache) => EligibleAnswers # { }
    /\ (routeError = "unsupported" /\ routeCalls = 1) =>
          /\ selected = NoStrategy
          /\ selectedStrategy = NoStrategy
          /\ redisStore = NoEntry
          /\ generateCalls = 0
          /\ genOutcome = "none"
          /\ hpc \in {"routing", "responded"}
          /\ (hpc = "responded" =>
                 response = ErrorResponse(400, "No suitable swap strategy found."))

\* a request answered 400 because no check answered true, with caching switched on
C12_Witness ==
    /\ hpc = "responded"
    /\ routeError = "unsupported"
    /\ routeCalls = 1
    /\ ~NO_CACHE
    /\ response.status = 400

\* the requests the specification rejects: a missing or mistyped field, an amount
\* that is not above zero, a slippage outside 0..10000
InvalidRequestShapes ==
    { "noWallet", "badMint", "badAmount", "badSlippage", "badType", "zeroAmount",
      "slippageOutOfRange" }

\* C13 (as claimed): an invalid request is answered 400 at once, and neither the
\* router nor a strategy is invoked for it
C13_InvalidRequestRejectedFirst ==
    (reqShape \in InvalidRequestShapes) =>
        /\ routeCalls = 0
        /\ generateCalls = 0
        /\ hpc \in {"validate", "responded"}
        /\ (hpc = "responded" => response.status = 400 /\ ~response.success)

\* the cache read of this call answers with a known venue identifier
CacheHoldsVenue ==
    /\ rpc = "getCache"
    /\ ~NO_CACHE
    /\ redisStore \in StrategyNames

\* C21: when the cache read answers with a venue identifier, the router returns that
\* venue's strategy at once and no eligibility predicate has been invoked
C21_CacheHitShortCircuits ==
    [][ (CacheHoldsVenue /\ rpc' # "getCache" /\ rpc' # "threw") =>
            /\ rpc' = "returned"
            /\ selected' = redisStore
            /\ viaCache'
            /\ checkResults' = AllPending
            /\ firstTrue' = 0 ]_vars

\* a strategy returned from the cache entry while the venue says otherwise
C21_Witness ==
    /\ rpc = "returned"
    /\ viaCache
    /\ selected \in StrategyNames
    /\ FindStrategyClass(selected) \notin eligible
    /\ checkResults = AllPending

\* the venues priced on a bonding curve, and the venues that are liquidity pools
BondingCurveClasses ==
    { "MoonshotSwapStrategy", "RaydiumLaunchLabSwapStrategy",
      "PumpFunBondingCurveSwapStrategy" }
PoolClasses == { "PumpSwapStrategy", "RaydiumSwapStrategy" }

\* the step in which a full evaluation hands back its winner, with caching on
FullEvaluationReturns ==
    /\ rpc = "setCache"
    /\ rpc' = "returned"
    /\ ~NO_CACHE

\* C22: with caching on, a full evaluation that selects a strategy writes the cache
\* exactly once before returning: the winner's identifier, with the winner's own time
\* to live, which is shorter for a bonding-curve venue than for any pool venue; a
\* call writes at most once and only for the winner of a full evaluation
C22_OneWriteWithVenueTTL ==
    /\ [][ FullEvaluationReturns =>
              /\ cacheWrites = 0
              /\ cacheWrites' = 1
              /\ redisStore' = selected
              /\ selected' = selected
              /\ redisTTL' = getCacheTTL(selected)
              /\ selected \in BondingCurveClasses =>
                    \A q \in PoolClasses : redisTTL' < getCacheTTL(q)
              /\ selected \in PoolClasses =>
                    \A b \in BondingCurveClasses : getCacheTTL(b) < redisTTL' ]_vars
    /\ [](cacheWrites <= 1)
    /\ []((cacheWrites = 1) => (rpc \in {"returned", "idle"} /\ ~viaCache))
    /\ []((rpc = "returned" /\ ~viaCache /\ ~NO_CACHE) => cacheWrites = 1)

\* a full evaluation returned a bonding-curve winner whose entry lives 30 seconds
C22_Witness ==
    /\ rpc = "returned"
    /\ ~viaCache
    /\ cacheWrites = 1
    /\ selected \in BondingCurveClasses
    /\ redisStore = selected
    /\ redisTTL = 30

\* C30: a full evaluation never selects the Moonshot venue for a token whose curve
\* has completed migration, whatever the classification APIs answer
C30_MigratedNeverRoutedToMoonshot ==
    (/\ rpc \in {"setCache", "returned"}
     /\ ~viaCache
     /\ moon.isMoonToken
     /\ moon.isMigrated) =>
        selected # "MoonshotSwapStrategy"

\* C24: every request that reaches the router is answered in the end, also when
\* a venue's classification API never answers
C24_EveryRequestAnswered ==
    (hpc = "routing") ~> (hpc = "responded")

(***************************************************************************)
(* Claims checked under SpecBuild                                          *)
(***************************************************************************)
IsFeeTransfer(ix) == ix.kind = "transfer" /\ ix.to = SENDY_FEE_ACCOUNT

\* positions of the fee transfers in the returned transactions
FeeTransferPositions ==
    UNION { { << t, i >> : i \in { k \in DOMAIN txs[t] : IsFeeTransfer(txs[t][k]) } } :
            t \in DOMAIN txs }

\* C2 (as claimed): a successful build with a positive fee returns exactly one
\* transfer of that amount to the fee account, and a build with a zero fee returns
\* none, whichever strategy built it
C2_ExactlyOneFeeTransfer ==
    (bpc = "assembled") =>
        IF gen.sendyFeeLamports > 0
        THEN /\ Cardinality(FeeTransferPositions) = 1
             /\ \A p \in FeeTransferPositions :
                    txs[p[1]][p[2]].lamports = gen.sendyFeeLamports
        ELSE FeeTransferPositions = { }

\* the group of the fixed order an instruction belongs to
OrderGroup(ix) ==
    CASE ix.kind = "setComputeUnitPrice" -> 1
      [] ix.kind \in {"createAtaIdempotent", "createAta", "syncNative"} -> 2
      [] ix.kind = "transfer" /\ ix.to = WSOL -> 2
      [] IsFeeTransfer(ix) -> 3
      [] ix.kind = "swap" -> 4
      [] OTHER -> 5

\* C3 (as claimed): every assembled transaction lists compute-unit price (only with a
\* priority fee), account setup, fee transfer, swap, cleanup, in that order
C3_FixedInstructionOrder ==
    (bpc = "assembled") =>
        \A t \in DOMAIN txs :
            /\ \A i, j \in DOMAIN txs[t] :
                   i < j => OrderGroup(txs[t][i]) <= OrderGroup(txs[t][j])
            /\ (\E i \in DOMAIN txs[t] : txs[t][i].kind = "setComputeUnitPrice")
                   => swap.priorityFee > 0

PumpSwapQuoted == swap.venue = "PumpSwapStrategy" /\ bpc # "request" /\ gen.success

\* C6 (as claimed): with positive reserves and a positive input the constant-product
\* amountOut is strictly below the output reserve
C6_AmountOutBelowReserve ==
    PumpSwapQuoted =>
        gen.amountOut < (IF swap.type = "buy" THEN swap.tokenReserves ELSE swap.solReserves)

\* C7 (as claimed): the minimum-out of the constant-product venue is
\* floor(amountOut * (10000 - slippageBps) / 10000)
C7_MinOutIsFlooredSlippage ==
    PumpSwapQuoted =>
        (IF swap.type = "buy" THEN gen.tokenAmount ELSE gen.solAmount)
            = (gen.amountOut * (BPS_DENOMINATOR - swap.slippageBps)) \div BPS_DENOMINATOR

BondingCurveVenues ==
    { "PumpFunBondingCurveSwapStrategy", "MoonshotSwapStrategy",
      "RaydiumLaunchLabSwapStrategy" }

\* C8 (as claimed): on a bonding-curve venue the fee is floor(inputSol * 100 / 10000)
\* of the SOL the request spends on a buy, and floor(outputSol * 100 / 10000) of the
\* SOL the curve quotes on a sell
C8_FeeOnSolLeg ==
    (swap.venue \in BondingCurveVenues /\ bpc # "request" /\ gen.success) =>
        gen.sendyFeeLamports =
            ((IF swap.type = "buy" THEN swap.amountRaw ELSE gen.amountOut) * 100)
                \div BPS_DENOMINATOR

\* C14 (as claimed): when the venue's API supplied a complete transaction, the output
\* is that transaction unmodified, followed (when a fee is due) by a second
\* transaction holding only the fee transfer
C14_PrebuiltPlusFeeTransaction ==
    (bpc = "assembled" /\ gen.versionedTransaction # << >>) =>
        txs = << RaydiumApiTransaction(swap) >>
              \o (IF gen.sendyFeeLamports > 0
                  THEN << << TransferIx(SENDY_FEE_ACCOUNT, gen.sendyFeeLamports) >> >>
                  ELSE << >>)

\* the instruction lists this server puts together itself (a transaction pre-built by
\* the venue's API is the venue's)
BuiltLists ==
    IF bpc # "request" /\ gen.success
    THEN { gen.instructions }
         \cup (IF bpc = "assembled" /\ gen.versionedTransaction = << >>
               THEN { txs[t] : t \in DOMAIN txs } ELSE { })
    ELSE { }

C16_SellUnwrapsWrappedSol ==
    (/\ swap.venue = "PumpSwapStrategy"
     /\ swap.type = "sell"
     /\ bpc = "assembled"
     /\ gen.amountOut > 0) =>
        \E i, j \in DOMAIN txs[1] :
            /\ j < i
            /\ txs[1][j].kind = "swap"
            /\ txs[1][i] = CloseAccountIx(WSOL)

\* C17 (as claimed): every associated-account create in a generated list is the
\* idempotent instruction
C17_CreatesAreIdempotent ==
    \A l \in BuiltLists : \A i \in DOMAIN l : l[i].kind # "createAta"

\* the strategies that run the sell-all check on a sell
SellAllVenues == { "PumpSwapStrategy", "MoonshotSwapStrategy", "RaydiumSwapStrategy" }

\* the returned transaction closes the sold token's account after the swap
ClosesTokenAccountAfterSwap ==
    \E i, j \in DOMAIN txs[1] :
        j < i /\ txs[1][j].kind = "swap" /\ txs[1][i] = CloseAccountIx(TOKEN)

VenueCanPrice ==
    /\ swap.venueOk
    /\ swap.slippageBps > 0
    /\ swap.slippageBps < BPS_DENOMINATOR
    /\ swap.venue \in CurveVenues => (swap.solReserves > 0 /\ swap.tokenReserves > 0)
    /\ swap.venue \notin CurveVenues => swap.vendorQuote > 0

\* C19: on a sell the venue can price, a failed lookup of the token balance or of the
\* wrapped-SOL balance does not fail the generation: the instruction list is returned
\* and carries no close of the account whose balance could not be read
C19_BalanceLookupFailureNonFatal ==
    (/\ bpc # "request"
     /\ swap.type = "sell"
     /\ VenueCanPrice
     /\ (swap.tokenAta = -1 \/ swap.wsolAta = "missing")) =>
        /\ ~gen.threw
        /\ gen.success
        /\ swap.tokenAta = -1 =>
              \A l \in BuiltLists : \A i \in DOMAIN l : l[i] # CloseAccountIx(TOKEN)
        /\ swap.wsolAta = "missing" =>
              \A l \in BuiltLists : \A i \in DOMAIN l : l[i] # CloseAccountIx(WSOL)

\* a PumpFun buy priced against non-empty virtual reserves
PumpFunBuyPriced ==
    /\ bpc # "request"
    /\ swap.venue = "PumpFunBondingCurveSwapStrategy"
    /\ swap.type = "buy"
    /\ swap.solReserves > 0
    /\ swap.tokenReserves > 0
    /\ gen.success

\* the SOL inputs above the one of this buy
LargerSolInputs == { a \in AmountValues : a > swap.amountRaw }

\* C20 as stated: against the same virtual reserves, a larger SOL input buys strictly
\* more tokens
C20_TokenOutStrictlyIncreasing ==
    PumpFunBuyPriced =>
        \A a \in LargerSolInputs :
            gen.amountOut < PumpFunTokenOut(swap.solReserves, swap.tokenReserves, a)

\* C20: against the same virtual reserves, a larger SOL input never buys fewer tokens
C20_TokenOutNonDecreasing ==
    PumpFunBuyPriced =>
        \A a \in LargerSolInputs :
            gen.amountOut <= PumpFunTokenOut(swap.solReserves, swap.tokenReserves, a)

\* a priced buy for which a larger SOL input buys strictly more tokens
C20_Witness ==
    /\ PumpFunBuyPriced
    /\ gen.amountOut > 0
    /\ \E a \in LargerSolInputs :
           gen.amountOut < PumpFunTokenOut(swap.solReserves, swap.tokenReserves, a)

\* a PumpSwap swap against a pool with an empty reserve
PumpSwapEmptyReserve ==
    /\ bpc # "request"
    /\ swap.venue = "PumpSwapStrategy"
    /\ (swap.solReserves = 0 \/ swap.tokenReserves = 0)

\* C23: when either pool reserve is zero, PumpSwap's generation ends in an error, hands
\* back no instruction, and no transaction is built from it
C23_ZeroReserveRejected ==
    PumpSwapEmptyReserve =>
        /\ ~gen.success
        /\ gen.error # ""
        /\ gen.instructions = << >>
        /\ gen.versionedTransaction = << >>
        /\ bpc # "assembled"
        /\ txs = << >>

\* the pool data was read, one reserve is zero, and the build failed on it
C23_Witness ==
    /\ bpc = "failed"
    /\ swap.venue = "PumpSwapStrategy"
    /\ swap.venueOk
    /\ swap.solReserves = 0
    /\ swap.tokenReserves > 0
    /\ gen.threw
    /\ gen.error = "Pool has zero reserves"

\* C29: a swap with slippageBps = 0 is not rejected by any strategy as a missing or
\* invalid parameter
C29_ZeroSlippageAccepted ==
    (bpc # "request" /\ swap.slippageBps = 0) =>
        gen.error # "Missing required swap parameters."

\* ceil(priorityFee * 1000000) for a request priorityFee of p millionths
CeilMicroLamports(p) == (p * MICRO_PER_UNIT + MICRO_PER_UNIT - 1) \div MICRO_PER_UNIT

\* C28: a transaction compiled by the assembler for a request with priorityFee > 0
\* starts with a compute-unit price of ceil(priorityFee * 1000000) micro-lamports
C28_PriorityFeeConvertedOnce ==
    (/\ bpc = "assembled"
     /\ gen.versionedTransaction = << >>
     /\ swap.priorityFee > 0) =>
        txs[1][1] = ComputeUnitPriceIx(CeilMicroLamports(swap.priorityFee))

(***************************************************************************)
(* Claims checked under SpecNet                                            *)
(***************************************************************************)
\* what holds of a fetchWithRetry call in every state
FetchBounded ==
    /\ attemptsMade <= retries + 1
    /\ elapsed <= TimeoutTicks
    /\ (fpc = "returned") =>
          /\ fetched \in Statuses
          /\ fetched < 500
          /\ attemptsMade = attempt + 1
    /\ (fpc = "threw") =>
          /\ attemptsMade = retries + 1
          /\ fetched = 0
          /\ lastError \in FetchErrors \cup { "HTTP 5xx" }

\* C26: a fetchWithRetry call issues at most retries + 1 fetches; an attempt whose
\* timer has run out is aborted and nothing else; the call returns the first response
\* below 500, and throws the error caught last once retries + 1 attempts have failed
C26_BoundedRetry ==
    /\ []FetchBounded
    /\ [][ (fpc = "fetch" /\ elapsed = TimeoutTicks /\ fpc' # "fetch") =>
              (fpc' = "loop" /\ lastError' = "abort" /\ attempt' = attempt + 1) ]_vars
    /\ [][ (fpc = "fetch" /\ fpc' = "returned") =>
              (attemptsMade' = attemptsMade /\ fetched' < 500) ]_vars
    /\ [][ (fpc' = "threw" /\ fpc # "threw") =>
              (lastError' = lastError /\ attempt = retries + 1) ]_vars

\* two retries spent on three attempts, the last one aborted by its timer
C26_Witness ==
    /\ fpc = "threw"
    /\ retries = MaxRetries
    /\ attemptsMade = MaxRetries + 1
    /\ elapsed = TimeoutTicks
    /\ lastError = "abort"

\* the failures of the connection through the proxy: refused, reset, unresolved, or
\* timed out, by the socket or by the attempt's own timer
ConnectionLevelErrors == { "abort", "ECONNREFUSED", "ENOTFOUND", "ECONNRESET", "ETIMEDOUT" }

\* right after an attempt through a proxy failed at connection level, that proxy is
\* on the blacklist
FailedProxyIsMarked ==
    (/\ fpc \in { "loop", "threw" }
     /\ useProxy
     /\ attempt > 0
     /\ lastError \in ConnectionLevelErrors) =>
        currentProxy \in failedProxies

\* getNextProxy hands out a blacklisted proxy only in a call that resets the
\* blacklist: the interval has passed, or every proxy is on it
BlacklistRespected ==
    (/\ fpc = "loop"
     /\ fpc' = "fetch"
     /\ useProxy
     /\ currentProxy' \in failedProxies) =>
        \/ sinceCheck > FAILURE_RESET_INTERVAL
        \/ failedProxies = PROXIES

\* C27: a proxy is blacklisted after a connection-level failure of a call routed
\* through it, and a blacklisted proxy is not handed out again before the blacklist
\* is reset by the 5-minute interval or by every proxy being blacklisted
C27_FailedProxyNotReused ==
    /\ []FailedProxyIsMarked
    /\ [][BlacklistRespected]_vars

(***************************************************************************)
(* Claims checked under SpecRace                                           *)
(***************************************************************************)
\* C25: whatever the interleaving of the calls, every change of the cache entry is its
\* expiry or one call's write of the winner of its completed evaluation, and an
\* entry that is present is the value of the latest write
C25_LastWriteWins ==
    /\ []((redisStore # NoEntry) => (redisStore = lastWrite /\ redisStore \in StrategyNames))
    /\ [][ (redisStore' # redisStore) =>
              \/ redisStore' = NoEntry
              \/ \E c \in Callers :
                    /\ calls[c].pc = "setCache"
                    /\ calls'[c].pc = "returned"
                    /\ ~calls[c].viaCache
                    /\ redisStore' = calls[c].selected ]_vars

\* two evaluations chose different venues, both wrote, and the entry is the later one
C25_Witness ==
    /\ \A c \in Callers : calls[c].pc = "returned" /\ ~calls[c].viaCache
    /\ calls[1].selected # calls[2].selected
    /\ redisStore = calls[1].selected
    /\ lastWrite = calls[1].selected

====
